---- MODULE Spec2Model ----
(***************************************************************************)
(* The conversational ordering agent of ardine-backend: the chat endpoint  *)
(* (api/views.py, VirtualWaiterView.post), the model-output parser         *)
(* (api/llm.py, generate_response), menu retrieval (api/retrieval.py) and  *)
(* the index rebuild command (management/commands/index_to_chroma.py),     *)
(* with the endpoints that write the same stores: /dishes/ (DishViewSet)   *)
(* and /orders/ (OrderViewSet).                                            *)
(*                                                                         *)
(* Text is modelled by TLA+ strings; str.lower() and str.strip() are       *)
(* tabulated on the strings the model uses.  A Python value decoded from   *)
(* JSON is a tagged record [t |-> type, v |-> payload].                    *)
(***************************************************************************)
EXTENDS Integers, Sequences, FiniteSets, TLC

VARIABLES
    dishes,     \* Menu Store: the Dish rows currently stored, by id
    restaurants, \* Menu Store: the Restaurant rows currently stored, by id
    index,      \* Chroma collection "menu_items": set of indexed records
    rebuild,    \* the index_to_chroma command: its position and locals
    probe,      \* the last direct call of retrieve_menu_items and its result
    trial,      \* a direct run of the parser and the executor on given inputs
    sessions,   \* Session Store: sequence of ChatSession rows, row i has id i
    orders,     \* Order Store: sequence of Order rows, each with its OrderItem rows
    api,        \* the restaurants, dishes or orders request in progress, if any
    req,        \* per worker: the position and locals of the request it serves
    resp,       \* per worker: the last HTTP response it returned
    turns       \* number of chat requests accepted so far

vars ==
    <<dishes, restaurants, index, rebuild, probe, trial, sessions, orders, api,
      req, resp, turns>>

-----------------------------------------------------------------------------
(* Bounds of the model *)

NumProcs == 2
MaxTurns == 2
MaxK == 2
MaxContext == 2
MaxOrders == 1

(* Program constants *)

K == 5
HistoryWindow == 5

-----------------------------------------------------------------------------
(* Python values *)

NoneVal == [t |-> "none", v |-> ""]
Str(s) == [t |-> "str", v |-> s]
Num(s) == [t |-> "num", v |-> s]
List(xs) == [t |-> "list", v |-> xs]
Dict(ps) == [t |-> "dict", v |-> ps]

(* the upper-case letters and their lower-case forms *)
LowerLetter(c) ==
    CASE c = "A" -> "a" [] c = "B" -> "b" [] c = "C" -> "c" [] c = "D" -> "d"
      [] c = "E" -> "e" [] c = "F" -> "f" [] c = "G" -> "g" [] c = "H" -> "h"
      [] c = "I" -> "i" [] c = "J" -> "j" [] c = "K" -> "k" [] c = "L" -> "l"
      [] c = "M" -> "m" [] c = "N" -> "n" [] c = "O" -> "o" [] c = "P" -> "p"
      [] c = "Q" -> "q" [] c = "R" -> "r" [] c = "S" -> "s" [] c = "T" -> "t"
      [] c = "U" -> "u" [] c = "V" -> "v" [] c = "W" -> "w" [] c = "X" -> "x"
      [] c = "Y" -> "y" [] c = "Z" -> "z"
      [] OTHER -> c

(* str.lower().  A string of TLA+ has no characters to map, so the names that
   bear an upper-case letter are listed with their lower-case form; a single
   character goes through LowerLetter; every other string of the model is in
   lower case already and is returned as it is. *)
Lower(s) ==
    CASE s \in {"Naan", "NAAN", "nAAN", "NaaN"} -> "naan"
      [] s \in {"Dal", "DAL", "dAL", "DaL"} -> "dal"
      [] s \in {"Tikka", "TIKKA", "tIKKA"} -> "tikka"
      [] s \in {"Raita", "RAITA", "rAITA"} -> "raita"
      [] s \in {"Pizza", "PIZZA", "pIZZA"} -> "pizza"
      [] s \in {"Soup", "SOUP", "sOUP"} -> "soup"
      [] s \in {"Kheer", "KHEER", "kHEER"} -> "kheer"
      [] s \in {"Roti", "ROTI", "rOTI"} -> "roti"
      [] s = "Butter\nNaan" -> "butter\nnaan"
      [] OTHER -> LowerLetter(s)

(* str.strip() on the strings of the model *)
Strip(s) ==
    CASE s = " " -> ""
      [] s = " spicy " -> "spicy"
      [] OTHER -> s

(* a test of a request field that every value passes *)
Truthy_Always(x) == TRUE

(* Python truthiness of a request field.  A field that is missing (None) and
   one that is empty are both written "" (a session id: 0); the code tests
   them only with "not x" and "if x". *)
Truthy(x) == x # ""
TruthyId(x) == x # 0

(* Python falsiness of a value used as a condition (views.py:302 "not reply") *)
Falsy(x) ==
    \/ x.t = "none"
    \/ x.t = "str" /\ x.v = ""
    \/ x.t \in {"rawstr", "list", "dict"} /\ x.v = <<>>
    \/ x.t = "num" /\ x.v = "0"

-----------------------------------------------------------------------------
(* The generative model's output and json.loads                            *)
(*                                                                         *)
(* The text a completion returns is a sequence of lexical tokens           *)
(* [k |-> kind, v |-> spelling]: the JSON punctuation, "str" (a quoted     *)
(* string), "num", "null", "ws" (white space) and "word" (any other run of *)
(* characters, which JSON does not admit).                                 *)

Tok(k, v) == [k |-> k, v |-> v]
LB == Tok("{", "")
RB == Tok("}", "")
LS == Tok("[", "")
RS == Tok("]", "")
CL == Tok(":", "")
CM == Tok(",", "")
WS == Tok("ws", " ")
S(v) == Tok("str", v)
N(v) == Tok("num", v)
NUL == Tok("null", "")
W(v) == Tok("word", v)

(* str.strip() of a token sequence: white space is dropped at both ends *)
RECURSIVE StripLeft(_)
StripLeft(text) ==
    IF text # <<>> /\ Head(text).k = "ws" THEN StripLeft(Tail(text)) ELSE text

RECURSIVE StripRight(_)
StripRight(text) ==
    IF text # <<>> /\ text[Len(text)].k = "ws"
    THEN StripRight(SubSeq(text, 1, Len(text) - 1))
    ELSE text

StripText(text) == StripRight(StripLeft(text))

ParseFail == [ok |-> FALSE, val |-> NoneVal, next |-> 0]
ParseOk(val, next) == [ok |-> TRUE, val |-> val, next |-> next]

RECURSIVE SkipWs(_, _)
SkipWs(toks, i) ==
    IF i <= Len(toks) /\ toks[i].k = "ws" THEN SkipWs(toks, i + 1) ELSE i

(* dict[key] = val: a later member replaces an earlier one of the same key *)
DictPut(ps, key, val) ==
    IF \E n \in 1..Len(ps) : ps[n].key = key
    THEN [n \in 1..Len(ps) |->
            IF ps[n].key = key THEN [key |-> key, val |-> val] ELSE ps[n]]
    ELSE Append(ps, [key |-> key, val |-> val])

RECURSIVE ParseValue(_, _)
RECURSIVE ParseElems(_, _, _)
RECURSIVE ParseMembers(_, _, _)

(* the value that starts at or after token i *)
ParseValue(toks, i0) ==
    LET i == SkipWs(toks, i0) IN
    IF i > Len(toks) THEN ParseFail
    ELSE LET tok == toks[i] IN
         CASE tok.k = "str" -> ParseOk(Str(tok.v), i + 1)
           [] tok.k = "num" -> ParseOk(Num(tok.v), i + 1)
           [] tok.k = "null" -> ParseOk(NoneVal, i + 1)
           [] tok.k = "[" ->
                LET j == SkipWs(toks, i + 1) IN
                IF j <= Len(toks) /\ toks[j].k = "]"
                THEN ParseOk(List(<<>>), j + 1)
                ELSE ParseElems(toks, i + 1, <<>>)
           [] tok.k = "{" ->
                LET j == SkipWs(toks, i + 1) IN
                IF j <= Len(toks) /\ toks[j].k = "}"
                THEN ParseOk(Dict(<<>>), j + 1)
                ELSE ParseMembers(toks, i + 1, <<>>)
           [] OTHER -> ParseFail

(* the elements of an array, the "[" already read: value ("," value)* "]" *)
ParseElems(toks, i, acc) ==
    LET r == ParseValue(toks, i) IN
    IF ~r.ok THEN ParseFail
    ELSE LET j == SkipWs(toks, r.next) IN
         IF j > Len(toks) THEN ParseFail
         ELSE CASE toks[j].k = "," -> ParseElems(toks, j + 1, Append(acc, r.val))
                [] toks[j].k = "]" -> ParseOk(List(Append(acc, r.val)), j + 1)
                [] OTHER -> ParseFail

(* the members of an object, the "{" already read: "key" ":" value, ... "}" *)
ParseMembers(toks, i0, acc) ==
    LET i == SkipWs(toks, i0) IN
    IF i > Len(toks) \/ toks[i].k # "str" THEN ParseFail
    ELSE LET c == SkipWs(toks, i + 1) IN
         IF c > Len(toks) \/ toks[c].k # ":" THEN ParseFail
         ELSE LET r == ParseValue(toks, c + 1) IN
              IF ~r.ok THEN ParseFail
              ELSE LET j == SkipWs(toks, r.next)
                       acc2 == DictPut(acc, toks[i].v, r.val)
                   IN
                   IF j > Len(toks) THEN ParseFail
                   ELSE CASE toks[j].k = "," -> ParseMembers(toks, j + 1, acc2)
                          [] toks[j].k = "}" -> ParseOk(Dict(acc2), j + 1)
                          [] OTHER -> ParseFail

(* json.loads(text): one value, white space around it, nothing after it *)
JsonLoads(text) ==
    LET r == ParseValue(text, 1) IN
    IF r.ok /\ SkipWs(text, r.next) > Len(text)
    THEN [ok |-> TRUE, val |-> r.val]
    ELSE [ok |-> FALSE, val |-> NoneVal]

(* a Python str holding unparsed model output *)
RawStr(text) == [t |-> "rawstr", v |-> text]

(* the parse without the except clause of lines 131-135 *)
ParseModelOutput_NoFallback(text) == JsonLoads(text).val

(* llm.py:129-135: the parsed record, or the chat fallback on a decode error *)
ParseModelOutput(text) ==
    LET r == JsonLoads(text) IN
    IF r.ok THEN r.val
    ELSE Dict(<<[key |-> "intent", val |-> Str("chat")],
                [key |-> "reply", val |-> RawStr(text)],
                [key |-> "items", val |-> List(<<>>)]>>)

(* An exception, as str(e) reports it: its class, and what it names *)
Exc(class, what, detail) == <<class, what, detail>>
NoExc == Exc("", "", "")
UpstreamError == Exc("APIError", "upstream", "")
ValidationError == Exc("ValidationError", "UUID", "")
NoAttribute(type, attr) == Exc("AttributeError", type, attr)
NotIterable(type) == Exc("TypeError", type, "not iterable")

(* type(x).__name__ *)
TypeName(x) ==
    CASE x.t = "none" -> "NoneType"
      [] x.t = "str" -> "str"
      [] x.t = "rawstr" -> "str"
      [] x.t = "num" -> "int"
      [] x.t = "int" -> "int"
      [] x.t = "list" -> "list"
      [] x.t = "dict" -> "dict"
      [] x.t = "fstr" -> "str"

(* llm.py:116-125: client.chat.completions.create raised *)
CallRaised == <<Tok("raise", "")>>

(* llm.py:127: the completion's message.content is None *)
NoContent == <<Tok("none", "")>>

(* llm.py:115-135, generate_response given the completion's content *)
GenerateResponse(content) ==
    IF content = CallRaised
    THEN [ok |-> FALSE, exc |-> UpstreamError, result |-> NoneVal]
    ELSE IF content = NoContent
    THEN [ok |-> FALSE, exc |-> NoAttribute("NoneType", "strip"), result |-> NoneVal]
    ELSE [ok |-> TRUE, exc |-> NoExc, result |-> ParseModelOutput(StripText(content))]

(* dict.get(key, default) *)
DictGet(d, key, default) ==
    IF \E n \in 1..Len(d.v) : d.v[n].key = key
    THEN d.v[CHOOSE n \in 1..Len(d.v) : d.v[n].key = key].val
    ELSE default

-----------------------------------------------------------------------------
(* Menu Store: restaurants and dishes.  Prices are in hundredths of a      *)
(* rupee (the store keeps two decimal places).                             *)

(* the restaurants stored at the start, and the one a POST /restaurants/
   creates *)
Restaurants == {"R1", "R2", "R3"}
NewRestaurants == {"R8"}

RestaurantName(r) ==
    CASE r = "R1" -> "Spice Villa"
      [] r = "R2" -> "Curry Leaf"
      [] r = "R3" -> "New Cafe"
      [] r = "R8" -> "Pop Up"

(* models.py:20-40: the Restaurant rows at the start and as posted *)
RestaurantTable(r) == [id |-> r, name |-> RestaurantName(r)]

InitialRestaurants == [r \in Restaurants |-> RestaurantTable(r)]

(* the rows a PUT or PATCH /restaurants/<id>/ may leave for a restaurant: the
   row at the start, and for R1 the row with another name *)
RestaurantRevisions(r) ==
    {RestaurantTable(r)} \cup
    (IF r = "R1" THEN {[RestaurantTable(r) EXCEPT !.name = "Spice Manor"]}
     ELSE {})

(* the dishes stored at the start, and the dish a POST /dishes/ creates *)
AllDishes == {"d1", "d2", "d4"}
NewDishes == {"d3"}

(* models.py:61-76: the Dish rows at the start and as posted *)
DishTable(d) ==
    CASE d = "d1" -> [id |-> "d1", restaurant |-> "R1", name |-> "Naan",
                      description |-> "Flat bread", price |-> 15000,
                      calories |-> 260, category |-> "Breads",
                      tags |-> "veg", ingredients |-> "flour"]
      [] d = "d2" -> [id |-> "d2", restaurant |-> "R1", name |-> "Dal",
                      description |-> "", price |-> 9950,
                      calories |-> 0, category |-> "",
                      tags |-> "veg, spicy", ingredients |-> "lentils"]
      [] d = "d3" -> [id |-> "d3", restaurant |-> "R1", name |-> "Tikka",
                      description |-> "Grilled", price |-> 25000,
                      calories |-> 400, category |-> "Starters",
                      tags |-> "", ingredients |-> ""]
      [] d = "d4" -> [id |-> "d4", restaurant |-> "R2", name |-> "Raita",
                      description |-> "Yoghurt", price |-> 6000,
                      calories |-> 90, category |-> "Sides",
                      tags |-> "veg", ingredients |-> "curd"]

(* the Menu Store at the start *)
InitialStore == [d \in AllDishes |-> DishTable(d)]

(* the rows a PUT or PATCH /dishes/<id>/ may leave for a dish: the row at the
   start, and for d1 the row with another name, of two lines, and price *)
DishRevisions(d) ==
    {DishTable(d)} \cup
    (IF d = "d1"
     THEN {[DishTable(d) EXCEPT !.name = "Butter\nNaan", !.price = 17500]}
     ELSE {})

(* A UUID field accepts only a well-formed id (models.py:21, 209, 211) *)
WellFormedId(x) == x # "bad"

-----------------------------------------------------------------------------
(* Embedding Index: index_to_chroma.py and retrieval.py *)

(* index_to_chroma.py:43-57: the metadata stored with a dish *)
Metadata(item, rests) ==
    [dish_id |-> item.id,
     restaurant_id |-> item.restaurant,
     restaurant_name |-> rests[item.restaurant].name,
     dish_name |-> item.name,
     category |-> item.category,
     price |-> item.price,
     calories |-> item.calories,
     tags |-> item.tags,
     ingredients |-> item.ingredients,
     chef_special |-> "No",
     image_url |-> "",
     video_url |-> "",
     model_3d_url |-> ""]

(* index_to_chroma.py:31-61: the record added for a dish *)
IndexRecord(item, rests) ==
    [id |-> item.id, doc |-> item.name, meta |-> Metadata(item, rests)]

(* the collection as the command leaves it for the menu of the start *)
InitialIndex == {IndexRecord(DishTable(d), InitialRestaurants) : d \in AllDishes}

(* dict.get on a stored metadata record *)
MetaGet(meta, key, default) == IF key \in DOMAIN meta THEN meta[key] ELSE default

(* the embedding distance of a record to a query: the order of relevance *)
Distance(query, rec) ==
    LET n == CASE rec.id = "d1" -> 1 [] rec.id = "d2" -> 2
               [] rec.id = "d3" -> 3 [] rec.id = "d4" -> 4 [] OTHER -> 5
    IN IF query = "spicy" THEN n ELSE 6 - n

(* the records of a set, nearest first *)
RECURSIVE Nearest(_, _)
Nearest(recs, query) ==
    IF recs = {} THEN <<>>
    ELSE LET best == CHOOSE r \in recs :
                        \A o \in recs : Distance(query, r) <= Distance(query, o)
         IN <<best>> \o Nearest(recs \ {best}, query)

(* collection.query without the where filter *)
CollectionQuery_Unscoped(coll, restaurant_id, query, k) ==
    LET ranked == Nearest(coll, query)
    IN SubSeq(ranked, 1, IF Len(ranked) < k THEN Len(ranked) ELSE k)

(* retrieval.py:42-46: collection.query with n_results and a where filter *)
CollectionQuery(coll, restaurant_id, query, k) ==
    LET match == {r \in coll : MetaGet(r.meta, "restaurant_id", "") = restaurant_id}
        ranked == Nearest(match, query)
    IN SubSeq(ranked, 1, IF Len(ranked) < k THEN Len(ranked) ELSE k)

(* retrieval.py:52-71: one returned item, its metadata defaulted *)
RetrievedDoc(rec) ==
    [text |-> rec.doc,
     meta |-> [dish_id |-> MetaGet(rec.meta, "dish_id", ""),
               dish_name |-> MetaGet(rec.meta, "dish_name", ""),
               restaurant_name |-> MetaGet(rec.meta, "restaurant_name", ""),
               price |-> MetaGet(rec.meta, "price", 0),
               calories |-> MetaGet(rec.meta, "calories", 0),
               category |-> MetaGet(rec.meta, "category", ""),
               tags |-> MetaGet(rec.meta, "tags", ""),
               ingredients |-> MetaGet(rec.meta, "ingredients", ""),
               chef_special |-> MetaGet(rec.meta, "chef_special", ""),
               image_url |-> MetaGet(rec.meta, "image_url", ""),
               video_url |-> MetaGet(rec.meta, "video_url", ""),
               model_3d_url |-> MetaGet(rec.meta, "model_3d_url", "")]]

(* retrieval.py:23-73 *)
RetrieveMenuItems(coll, restaurant_id, user_query, k) ==
    IF Strip(user_query) = "" THEN <<>>
    ELSE LET results == CollectionQuery(coll, restaurant_id, user_query, k)
         IN [n \in 1..Len(results) |-> RetrievedDoc(results[n])]

-----------------------------------------------------------------------------
(* Session Store and Order Store *)

(* models.py:208-215: a ChatSession row; history and cart default to [] *)
NewSession(id, restaurant_id) ==
    [id |-> id, restaurant_id |-> restaurant_id, history |-> <<>>, cart |-> <<>>]

(* models.py:213: a cart entry *)
CartEntry(dish_id, name, price, qty) ==
    [dish_id |-> dish_id, name |-> name, price |-> price, qty |-> qty]

UserTurn(content) == [role |-> "user", content |-> content]

AssistantTurn(content, intent, context_items) ==
    [role |-> "assistant", content |-> content, intent |-> intent,
     context_items |-> context_items]

(* a stored session of an earlier conversation, in the shape models.py:212-213
   documents: two dishes of restaurant R1 in the cart *)
StoredSession ==
    [id |-> 1, restaurant_id |-> "R1",
     history |-> <<UserTurn("naan and two dal"),
                   AssistantTurn(Str("Added."), Str("add_to_cart"), <<>>)>>,
     cart |-> <<CartEntry("d1", "Naan", 15000, 1), CartEntry("d2", "Dal", 9950, 2)>>]

(* session ids a request may carry that name no stored row *)
UnknownSession == 99
MalformedSession == -1

(* models.py:102-109: the columns of Order (its items column is commented out,
   models.py:104); "items" names the reverse relation of OrderItem.order
   (models.py:116), which cannot be assigned *)
OrderColumns ==
    {"id", "restaurant", "restaurant_id", "total", "status", "created_at",
     "customer_name", "table_number"}

(* views.py:310-317: the keyword arguments of Order.objects.create *)
OrderCreateArgs ==
    {"restaurant_id", "items", "total", "status", "customer_name", "table_number"}

(* Model.__init__ raises TypeError on a keyword that is not a column *)
OrderCreateAccepted == OrderCreateArgs \subseteq OrderColumns
OrderCreateError ==
    Exc("TypeError", CHOOSE a \in OrderCreateArgs \ OrderColumns : TRUE,
        "Direct assignment to the reverse side of a related set is prohibited.")

-----------------------------------------------------------------------------
(* The intent executor: views.py:268-319 *)

IntVal(n) == [t |-> "int", v |-> n]

(* a reply the code formats itself: the template and its arguments *)
FStr(template, args) == [t |-> "fstr", v |-> <<template>> \o args]

(* f"{total:.2f}" of an amount in hundredths *)
Format2f(total) == [whole |-> total \div 100, frac |-> total % 100]

KnownChars(s) ==
    CASE s = "" -> <<>>
      [] s = "naan" -> <<"n", "a", "a", "n">>
      [] s = "NAAN" -> <<"N", "A", "A", "N">>
      [] s = "Dal" -> <<"D", "a", "l">>

(* views.py:270: [name.lower() for name in result.get("items", [])] *)
MentionedItems(result) ==
    LET items == DictGet(result, "items", List(<<>>)) IN
    CASE items.t = "list" ->
            IF \A n \in 1..Len(items.v) : items.v[n].t = "str"
            THEN [ok |-> TRUE, exc |-> NoExc,
                  names |-> [n \in 1..Len(items.v) |-> Lower(items.v[n].v)]]
            ELSE LET bad == CHOOSE n \in 1..Len(items.v) :
                              /\ items.v[n].t # "str"
                              /\ \A m \in 1..(n - 1) : items.v[m].t = "str"
                 IN [ok |-> FALSE, exc |-> NoAttribute(TypeName(items.v[bad]), "lower"),
                     names |-> <<>>]
      [] items.t = "dict" ->
            [ok |-> TRUE, exc |-> NoExc,
             names |-> [n \in 1..Len(items.v) |-> Lower(items.v[n].key)]]
      [] items.t = "str" ->
            [ok |-> TRUE, exc |-> NoExc,
             names |-> [n \in 1..Len(KnownChars(items.v)) |-> Lower(KnownChars(items.v)[n])]]
      [] OTHER -> [ok |-> FALSE, exc |-> NotIterable(TypeName(items)), names |-> <<>>]

InSeq(x, xs) == \E n \in 1..Len(xs) : xs[n] = x

(* a matcher that takes every context item once the model reports any name *)
Matches_AnyReported(item, mentioned) == mentioned # <<>>

(* views.py:276: item["name"].lower() in mentioned_items *)
Matches(item, mentioned) == InSeq(Lower(item.name), mentioned)

(* an append that raises the quantity of the cart's entry for the dish, if any *)
AppendEntry_Merging(cart, item) ==
    IF \E n \in 1..Len(cart) : cart[n].dish_id = item.id
    THEN [n \in 1..Len(cart) |->
            IF cart[n].dish_id = item.id
            THEN [cart[n] EXCEPT !.qty = cart[n].qty + 1] ELSE cart[n]]
    ELSE Append(cart, CartEntry(item.id, item.name, item.price, 1))

(* views.py:277-282: cart.append({"dish_id", "name", "price", "qty": 1}) *)
AppendEntry(cart, item) == Append(cart, CartEntry(item.id, item.name, item.price, 1))

(* views.py:274-283: the entries appended and the names collected *)
RECURSIVE AddToCart(_, _, _, _)
AddToCart(context_items, mentioned, cart, added) ==
    IF context_items = <<>> THEN [cart |-> cart, added |-> added]
    ELSE LET item == Head(context_items) IN
         IF Matches(item, mentioned)
         THEN AddToCart(Tail(context_items), mentioned, AppendEntry(cart, item),
                        Append(added, item.name))
         ELSE AddToCart(Tail(context_items), mentioned, cart, added)

(* a confirmation written whether or not an entry was added *)
AddReply_Always(added, reply) == FStr("added", <<added>>)

(* views.py:284-286: if added: reply = f"Added {', '.join(added)} to your cart." *)
AddReply(added, reply) == IF added # <<>> THEN FStr("added", <<added>>) ELSE reply

(* a lookup by name alone, in the dishes of every restaurant *)
FindDish_AnyRestaurant(store, name, restaurant_id) ==
    LET found == {d \in DOMAIN store : Lower(store[d].name) = Lower(name)}
    IN IF found = {} THEN "" ELSE CHOOSE d \in found : TRUE

(* views.py:292-295: Dish.objects.filter(name__iexact, restaurant_id).first() *)
FindDish(store, name, restaurant_id) ==
    LET found == {d \in DOMAIN store : /\ Lower(store[d].name) = Lower(name)
                                       /\ store[d].restaurant = restaurant_id}
    IN IF found = {} THEN "" ELSE CHOOSE d \in found : TRUE

(* views.py:297-300 *)
Description(dish) ==
    FStr("described",
         <<dish.name,
           IF dish.description = "" THEN "No description available." ELSE dish.description,
           dish.price,
           IF dish.calories = 0 THEN Str("N/A") ELSE IntVal(dish.calories)>>)

(* views.py:289-303: the reply after the loop and the clarification fallback *)
RECURSIVE DescribeDish(_, _, _, _, _, _)
DescribeDish(context_items, mentioned, restaurant_id, store, reply, described) ==
    IF context_items = <<>>
    THEN IF described = <<>> /\ Falsy(reply) THEN FStr("clarify", <<>>) ELSE reply
    ELSE LET item == Head(context_items)
             d == FindDish(store, item.name, restaurant_id)
         IN IF Matches(item, mentioned) /\ d # ""
            THEN DescribeDish(Tail(context_items), mentioned, restaurant_id, store,
                              Description(store[d]),
                              Append(described, store[d].name))
            ELSE DescribeDish(Tail(context_items), mentioned, restaurant_id, store,
                              reply, described)

(* views.py:309: sum(float(i["price"]) * i["qty"] for i in cart) *)
RECURSIVE CartTotal(_)
CartTotal(cart) ==
    IF cart = <<>> THEN 0
    ELSE Head(cart).price * Head(cart).qty + CartTotal(Tail(cart))

(* views.py:310-317: the row Order.objects.create would insert *)
NewOrder(id, restaurant_id, cart, total) ==
    [id |-> id, restaurant_id |-> restaurant_id, items |-> cart, total |-> total,
     status |-> "pending", customer_name |-> "Guest", table_number |-> "Virtual"]

(* the confirm_order branch without the test of line 306 *)
ConfirmOrder_NoEmptyTest(cart, restaurant_id, ords, reply) ==
    LET total == CartTotal(cart)
        order == NewOrder(Len(ords) + 1, restaurant_id, cart, total)
    IN IF OrderCreateAccepted
       THEN [ok |-> TRUE, exc |-> NoExc, orders |-> Append(ords, order),
             session_cart |-> <<>>,
             reply |-> FStr("order_placed", <<order.id, Format2f(total)>>)]
       ELSE [ok |-> FALSE, exc |-> OrderCreateError, orders |-> ords,
             session_cart |-> cart, reply |-> reply]

(* views.py:305-319.  cart is the list loaded with the session; the result
   carries the orders after the branch and the session's cart field. *)
ConfirmOrder(cart, restaurant_id, ords, reply) ==
    IF cart = <<>>
    THEN [ok |-> TRUE, exc |-> NoExc, orders |-> ords, session_cart |-> cart,
          reply |-> FStr("cart_empty", <<>>)]
    ELSE LET total == CartTotal(cart)
             order == NewOrder(Len(ords) + 1, restaurant_id, cart, total)
         IN IF OrderCreateAccepted
            THEN [ok |-> TRUE, exc |-> NoExc, orders |-> Append(ords, order),
                  session_cart |-> <<>>,
                  reply |-> FStr("order_placed", <<order.id, Format2f(total)>>)]
            ELSE [ok |-> FALSE, exc |-> OrderCreateError, orders |-> ords,
                  session_cart |-> cart, reply |-> reply]

(* the executor with a remove_from_cart branch that drops the mentioned dishes *)
ExecuteIntent_Removing(result, context_items, cart, restaurant_id, store, ords) ==
    LET failed(exc) == [ok |-> FALSE, exc |-> exc, intent |-> NoneVal,
                        reply |-> NoneVal, cart |-> cart, orders |-> ords]
    IN
    IF result.t # "dict" THEN failed(NoAttribute(TypeName(result), "get"))
    ELSE LET intent == DictGet(result, "intent", Str("chat"))
             reply == DictGet(result, "reply", Str(""))
             m == MentionedItems(result)
             done(r, c, o) == [ok |-> TRUE, exc |-> NoExc, intent |-> intent,
                               reply |-> r, cart |-> c, orders |-> o]
             kept(e) == ~InSeq(Lower(e.name), m.names)
         IN
         IF ~m.ok THEN failed(m.exc)
         ELSE CASE intent = Str("add_to_cart") ->
                     LET a == AddToCart(context_items, m.names, cart, <<>>) IN
                     done(AddReply(a.added, reply), a.cart, ords)
                [] intent = Str("describe_dish") ->
                     done(DescribeDish(context_items, m.names, restaurant_id, store,
                                       reply, <<>>),
                          cart, ords)
                [] intent = Str("confirm_order") ->
                     LET c == ConfirmOrder(cart, restaurant_id, ords, reply) IN
                     IF c.ok THEN done(c.reply, c.session_cart, c.orders)
                     ELSE failed(c.exc)
                [] intent = Str("remove_from_cart") ->
                     done(reply, SelectSeq(cart, kept), ords)
                [] OTHER -> done(reply, cart, ords)

(* views.py:268-319: the whole executor.  The result names the outcome: an
   exception (ok = FALSE), or the intent, the final reply, the session's cart
   field and the orders after it. *)
ExecuteIntent(result, context_items, cart, restaurant_id, store, ords) ==
    LET failed(exc) == [ok |-> FALSE, exc |-> exc, intent |-> NoneVal,
                        reply |-> NoneVal, cart |-> cart, orders |-> ords]
    IN
    IF result.t # "dict" THEN failed(NoAttribute(TypeName(result), "get"))
    ELSE LET intent == DictGet(result, "intent", Str("chat"))
             reply == DictGet(result, "reply", Str(""))
             m == MentionedItems(result)
             done(r, c, o) == [ok |-> TRUE, exc |-> NoExc, intent |-> intent,
                               reply |-> r, cart |-> c, orders |-> o]
         IN
         IF ~m.ok THEN failed(m.exc)
         ELSE CASE intent = Str("add_to_cart") ->
                     LET a == AddToCart(context_items, m.names, cart, <<>>) IN
                     done(AddReply(a.added, reply), a.cart, ords)
                [] intent = Str("describe_dish") ->
                     done(DescribeDish(context_items, m.names, restaurant_id, store,
                                       reply, <<>>),
                          cart, ords)
                [] intent = Str("confirm_order") ->
                     LET c == ConfirmOrder(cart, restaurant_id, ords, reply) IN
                     IF c.ok THEN done(c.reply, c.session_cart, c.orders)
                     ELSE failed(c.exc)
                [] OTHER -> done(reply, cart, ords)

-----------------------------------------------------------------------------
(* The chat endpoint: views.py:218-346, one action per step of a request *)

Procs == 1..NumProcs

(* values a request may carry in restaurant_id and user_query *)
RequestRestaurants == {"", "R1", "R3", "R9", "bad"}
RequestQueries == {"", " ", "spicy"}

(* llm.py:59: the intents the prompt asks the model to choose from *)
ClosedIntents ==
    {"chat", "describe_dish", "add_to_cart", "remove_from_cart", "update_quantity",
     "check_cart", "confirm_order", "recommend_dish", "ask_calories",
     "ask_ingredients", "ask_price", "ask_category", "restaurant_info", "greet",
     "goodbye", "unknown"}

(* constructors of completion texts *)
Field(key, valueToks) == <<S(key), CL>> \o valueToks
Object3(intent, reply, itemToks) ==
    <<LB>> \o Field("intent", <<S(intent)>>) \o <<CM, WS>>
           \o Field("reply", <<S(reply)>>) \o <<CM, WS>>
           \o Field("items", itemToks) \o <<RB>>

(* the completions the generative model returns in the model *)
Completions ==
    { Object3("chat", "Hello!", <<LS, RS>>),
      Object3("add_to_cart", "Sure, adding.", <<LS, S("NAAN"), CM, S("Pizza"), RS>>),
      Object3("confirm_order", "Placing it.", <<LS, RS>>),
      Object3("describe_dish", "", <<LS, S("dal"), RS>>),
      Object3("dance", "La la.", <<LS, RS>>),
      Object3("chat", "Hi.", <<NUL>>),
      <<WS, W("Sorry, I cannot help."), WS>>,
      <<LS, RS>>,
      CallRaised,
      NoContent }

NoSession == NewSession(0, "")

(* The locals of a request.  loaded and created record, for the properties
   below, the session as it was loaded and whether this request created it. *)
Idle ==
    [pc |-> "idle", restaurant_id |-> "", user_query |-> "", session_id |-> 0,
     chat_session |-> NoSession, context_items |-> <<>>, menu_context |-> <<>>,
     restaurant |-> "", result |-> NoneVal, intent |-> NoneVal, reply |-> NoneVal,
     loaded |-> NoSession, created |-> FALSE]

(* What a response answers: the request, the session as it was loaded (and
   whether the request created it) and the parsed model output, as far as the
   request got.  It is kept beside the response for the properties below. *)
NoTurn ==
    [restaurant_id |-> "", user_query |-> "", session_id |-> 0,
     loaded |-> NoSession, created |-> FALSE, result |-> NoneVal]

TurnOf(r, result) ==
    [restaurant_id |-> r.restaurant_id, user_query |-> r.user_query,
     session_id |-> r.session_id,
     loaded |-> r.loaded, created |-> r.created, result |-> result]

NoResponse == [status |-> 0, error |-> NoExc, body |-> <<>>, turn |-> NoTurn]

(* views.py:225-228, 343, 346: an error response *)
ErrorResponse(status, error, turn) ==
    [status |-> status, error |-> error, body |-> <<>>, turn |-> turn]

(* the request of worker p ends with response r *)
Respond(p, r) ==
    /\ resp' = [resp EXCEPT ![p] = r]
    /\ req' = [req EXCEPT ![p] = Idle]

(* the session ids a client can hold: those of the sessions stored at the
   start and those a response has carried (a session's first save and the
   response that carries its id are one step) *)
IssuedSessions == {n \in 1..Len(sessions) : sessions[n].history # <<>>}

(* views.py:220-228: a request arrives and its required fields are tested *)
Start(p) ==
    /\ req[p].pc = "idle"
    /\ turns < MaxTurns
    /\ turns' = turns + 1
    /\ \E rid \in RequestRestaurants, q \in RequestQueries,
          sid \in {0, UnknownSession, MalformedSession} \cup IssuedSessions :
          IF ~Truthy(rid) \/ ~Truthy(q)
          THEN Respond(p, ErrorResponse(400, Exc("", "required", ""),
                                        [NoTurn EXCEPT !.restaurant_id = rid,
                                                       !.user_query = q,
                                                       !.session_id = sid]))
          ELSE /\ req' = [req EXCEPT ![p] = [Idle EXCEPT !.pc = "load",
                                                         !.restaurant_id = rid,
                                                         !.user_query = q,
                                                         !.session_id = sid]]
               /\ resp' = [resp EXCEPT ![p] = NoResponse]
    /\ UNCHANGED <<restaurants, api, dishes, index, rebuild, probe, trial, sessions, orders>>

(* views.py:230-238: the session is loaded, or created when none is found *)
LoadSession(p) ==
    LET r == req[p]
        found == TruthyId(r.session_id) /\ r.session_id \in 1..Len(sessions)
    IN
    /\ r.pc = "load"
    /\ IF TruthyId(r.session_id) /\ r.session_id = MalformedSession
       THEN /\ Respond(p, ErrorResponse(500, ValidationError, TurnOf(r, NoneVal)))
            /\ UNCHANGED sessions
       ELSE IF found
       THEN /\ req' = [req EXCEPT ![p].pc = "retrieve",
                                  ![p].chat_session = sessions[r.session_id],
                                  ![p].loaded = sessions[r.session_id]]
            /\ UNCHANGED <<sessions, resp>>
       ELSE IF ~WellFormedId(r.restaurant_id)
       THEN /\ Respond(p, ErrorResponse(500, ValidationError, TurnOf(r, NoneVal)))
            /\ UNCHANGED sessions
       ELSE LET new == NewSession(Len(sessions) + 1, r.restaurant_id) IN
            /\ sessions' = Append(sessions, new)
            /\ req' = [req EXCEPT ![p].pc = "retrieve", ![p].chat_session = new,
                                  ![p].loaded = new, ![p].created = TRUE]
            /\ UNCHANGED resp
    /\ UNCHANGED <<restaurants, api, dishes, index, rebuild, probe, trial, orders, turns>>

(* views.py:242-251: the keys the view reads from a retrieved item's meta *)
ContextKeyOrder == <<"item_id", "name", "price", "calories", "tags">>
ContextKeys == {ContextKeyOrder[i] : i \in 1..Len(ContextKeyOrder)}

(* views.py:242-251: context_items, or the KeyError of a key that is absent *)
ContextItems(docs) ==
    IF \A n \in 1..Len(docs) : ContextKeys \subseteq DOMAIN docs[n].meta
    THEN [ok |-> TRUE, exc |-> NoExc,
          items |-> [n \in 1..Len(docs) |->
                        [id |-> docs[n].meta.item_id, name |-> docs[n].meta.name,
                         price |-> docs[n].meta.price,
                         calories |-> docs[n].meta.calories,
                         tags |-> docs[n].meta.tags]]]
    ELSE LET meta == docs[CHOOSE n \in 1..Len(docs) :
                            ~(ContextKeys \subseteq DOMAIN docs[n].meta)].meta
             first == CHOOSE i \in 1..Len(ContextKeyOrder) :
                         /\ ContextKeyOrder[i] \notin DOMAIN meta
                         /\ \A j \in 1..(i - 1) : ContextKeyOrder[j] \in DOMAIN meta
         IN [ok |-> FALSE, exc |-> Exc("KeyError", ContextKeyOrder[first], ""),
             items |-> <<>>]

(* views.py:252-255: the lines joined into menu_context ("" when there are none) *)
MenuContext(items) ==
    [n \in 1..Len(items) |->
        <<items[n].name, items[n].price, items[n].calories, items[n].tags>>]

(* retrieval with the user's entry stored before the call, so that a failed
   call leaves it in the session *)
Retrieve_SavingUserTurn(p) ==
    LET r == req[p] IN
    /\ r.pc = "retrieve"
    /\ \E upstream_ok \in BOOLEAN :
         LET docs == RetrieveMenuItems(index, r.restaurant_id, r.user_query, K)
             ctx == ContextItems(docs)
         IN
         IF ~upstream_ok /\ Strip(r.user_query) # ""
         THEN /\ Respond(p, ErrorResponse(500, UpstreamError, TurnOf(r, NoneVal)))
              /\ sessions' = [sessions EXCEPT ![r.chat_session.id].history =
                                    Append(@, UserTurn(r.user_query))]
         ELSE /\ UNCHANGED sessions
              /\ IF ~ctx.ok
                 THEN Respond(p, ErrorResponse(500, ctx.exc, TurnOf(r, NoneVal)))
                 ELSE IF ~WellFormedId(r.restaurant_id)
                 THEN Respond(p, ErrorResponse(500, ValidationError, TurnOf(r, NoneVal)))
                 ELSE IF r.restaurant_id \notin DOMAIN restaurants
                 THEN Respond(p, ErrorResponse(404, Exc("", "Restaurant not found.", ""),
                                               TurnOf(r, NoneVal)))
                 ELSE /\ req' = [req EXCEPT ![p].pc = "generate",
                                            ![p].context_items = ctx.items,
                                            ![p].menu_context = MenuContext(ctx.items),
                                            ![p].restaurant = restaurants[r.restaurant_id].name]
                      /\ UNCHANGED resp
    /\ UNCHANGED <<restaurants, api, dishes, index, rebuild, probe, trial, orders, turns>>

(* views.py:240-257: retrieval, the context of the turn, the restaurant *)
Retrieve(p) ==
    LET r == req[p] IN
    /\ r.pc = "retrieve"
    /\ \E upstream_ok \in BOOLEAN :
         LET docs == RetrieveMenuItems(index, r.restaurant_id, r.user_query, K)
             ctx == ContextItems(docs)
         IN
         IF ~upstream_ok /\ Strip(r.user_query) # ""
         THEN Respond(p, ErrorResponse(500, UpstreamError, TurnOf(r, NoneVal)))
         ELSE IF ~ctx.ok
         THEN Respond(p, ErrorResponse(500, ctx.exc, TurnOf(r, NoneVal)))
         ELSE IF ~WellFormedId(r.restaurant_id)
         THEN Respond(p, ErrorResponse(500, ValidationError, TurnOf(r, NoneVal)))
         ELSE IF r.restaurant_id \notin DOMAIN restaurants
         THEN Respond(p, ErrorResponse(404, Exc("", "Restaurant not found.", ""),
                                       TurnOf(r, NoneVal)))
         ELSE /\ req' = [req EXCEPT ![p].pc = "generate",
                                    ![p].context_items = ctx.items,
                                    ![p].menu_context = MenuContext(ctx.items),
                                    ![p].restaurant = restaurants[r.restaurant_id].name]
              /\ UNCHANGED resp
    /\ UNCHANGED <<restaurants, api, dishes, index, rebuild, probe, trial, sessions, orders, turns>>

(* views.py:259-319: generate_response is called with the turn's context and
   the intent of its result is executed on the loaded session *)
Execute(p) ==
    LET r == req[p] IN
    /\ r.pc = "generate"
    /\ \E content \in Completions :
         LET g == GenerateResponse(content)
             e == ExecuteIntent(g.result, r.context_items, r.chat_session.cart,
                                r.restaurant_id, dishes, orders)
         IN
         IF ~g.ok
         THEN /\ Respond(p, ErrorResponse(500, g.exc, TurnOf(r, NoneVal)))
              /\ UNCHANGED orders
         ELSE IF ~e.ok
         THEN /\ Respond(p, ErrorResponse(500, e.exc, TurnOf(r, g.result)))
              /\ UNCHANGED orders
         ELSE /\ req' = [req EXCEPT ![p].pc = "save",
                                    ![p].result = g.result,
                                    ![p].intent = e.intent,
                                    ![p].reply = e.reply,
                                    ![p].chat_session.cart = e.cart]
              /\ orders' = e.orders
              /\ UNCHANGED resp
    /\ UNCHANGED <<restaurants, api, dishes, index, rebuild, probe, trial, sessions, turns>>

(* history[:5], the first entries instead of the last *)
LastTurns_First(history) ==
    IF Len(history) <= HistoryWindow THEN history
    ELSE SubSeq(history, 1, HistoryWindow)

(* history[-5:] *)
LastTurns(history) ==
    IF Len(history) <= HistoryWindow THEN history
    ELSE SubSeq(history, Len(history) - HistoryWindow + 1, Len(history))

(* views.py:322-329: the two entries of the turn appended to the loaded history *)
AppendTurn(history, user_query, reply, intent, context_items) ==
    history \o <<UserTurn(user_query), AssistantTurn(reply, intent, context_items)>>

(* views.py:333-340 *)
ChatResponse(session, intent, reply, context_items, turn) ==
    [status |-> 200, error |-> NoExc,
     body |-> [session_id |-> session.id, intent |-> intent, reply |-> reply,
               context_items |-> context_items, cart |-> session.cart,
               history |-> LastTurns(session.history)],
     turn |-> turn]

(* a save that writes the turn's history and cart to every session of the
   same restaurant *)
Save_PerRestaurant(p) ==
    LET r == req[p]
        saved == [r.chat_session EXCEPT
                    !.history = AppendTurn(r.chat_session.history, r.user_query,
                                           r.reply, r.intent, r.context_items)]
    IN
    /\ r.pc = "save"
    /\ sessions' = [n \in DOMAIN sessions |->
                       IF sessions[n].restaurant_id = saved.restaurant_id
                       THEN [saved EXCEPT !.id = n] ELSE sessions[n]]
    /\ Respond(p, ChatResponse(saved, r.intent, r.reply, r.context_items,
                               TurnOf(r, r.result)))
    /\ UNCHANGED <<restaurants, api, dishes, index, rebuild, probe, trial, orders, turns>>

(* views.py:321-340: the history is extended, the session saved, the response built *)
Save(p) ==
    LET r == req[p]
        saved == [r.chat_session EXCEPT
                    !.history = AppendTurn(r.chat_session.history, r.user_query,
                                           r.reply, r.intent, r.context_items)]
    IN
    /\ r.pc = "save"
    /\ sessions' = [sessions EXCEPT ![saved.id] = saved]
    /\ Respond(p, ChatResponse(saved, r.intent, r.reply, r.context_items,
                               TurnOf(r, r.result)))
    /\ UNCHANGED <<restaurants, api, dishes, index, rebuild, probe, trial, orders, turns>>

-----------------------------------------------------------------------------
(* retrieval.py:76-103, build_menu_context.  The text it returns is a sequence
   of chunks: a piece of text that holds no line break, a formatted number,
   or a line break. *)

Chunk(k, text, n) == [k |-> k, text |-> text, n |-> n]

(* the parts of a string between its line breaks, for the strings of the
   model *)
SplitBreaks(s) ==
    CASE s = "Butter\nNaan" -> <<"Butter", "Naan">>
      [] OTHER -> <<s>>

(* sep.join(texts) *)
RECURSIVE Join(_, _)
Join(texts, sep) ==
    IF texts = <<>> THEN <<>>
    ELSE IF Len(texts) = 1 THEN texts[1]
    ELSE texts[1] \o sep \o Join(Tail(texts), sep)

(* retrieval.py:94-100: a string interpolated in the f-string of a line: as
   it is, its line breaks included *)
Interpolate(value) ==
    Join([n \in 1..Len(SplitBreaks(value)) |->
             <<Chunk("text", SplitBreaks(value)[n], 0)>>],
         <<Chunk("nl", "", 0)>>)

(* retrieval.py:96-97: a number interpolated in the f-string of a line *)
InterpolateNumber(value) == <<Chunk("num", "", value)>>

(* retrieval.py:88 *)
NoMatchSentence == "No matching dishes found for this restaurant."

(* retrieval.py:94-100: the line of one item *)
ContextLine(d) ==
    LET m == d.meta IN
    <<Chunk("text", "Name: ", 0)>> \o Interpolate(m.dish_name)
    \o <<Chunk("text", " | Category: ", 0)>> \o Interpolate(m.category)
    \o <<Chunk("text", " | Price: ₹", 0)>> \o InterpolateNumber(m.price)
    \o <<Chunk("text", " | Calories: ", 0)>> \o InterpolateNumber(m.calories)
    \o <<Chunk("text", " kcal | Tags: ", 0)>> \o Interpolate(m.tags)
    \o <<Chunk("text", " | Ingredients: ", 0)>> \o Interpolate(m.ingredients)
    \o <<Chunk("text", " | Chef Special: ", 0)>> \o Interpolate(m.chef_special)

(* retrieval.py:87-103 *)
BuildMenuContext(docs) ==
    IF docs = <<>> THEN <<Chunk("text", NoMatchSentence, 0)>>
    ELSE Join([n \in 1..Len(docs) |-> ContextLine(docs[n])],
              <<Chunk("nl", "", 0)>>)

-----------------------------------------------------------------------------
(* The restaurants, dishes and orders endpoints: views.py:22-92.  Each is a
   ModelViewSet.  A request that works in several database statements is as
   many steps, between which other requests run; api holds the request between
   its steps. *)

NoCall == [op |-> "idle", row |-> [id |-> ""]]

(* the frame of a step of these endpoints *)
StoreFrame == UNCHANGED <<index, rebuild, probe, trial, sessions, req, resp, turns>>

(* models.py:117: on_delete=SET_NULL, the order items naming a deleted dish
   keep their name and price and lose the dish *)
SetNull(stored, gone) ==
    [n \in 1..Len(stored) |->
       [stored[n] EXCEPT !.items =
          [i \in 1..Len(stored[n].items) |->
             IF stored[n].items[i].dish \in gone
             THEN [stored[n].items[i] EXCEPT !.dish = "NULL"]
             ELSE stored[n].items[i]]]]

(* models.py:103: on_delete=CASCADE, the orders left when a restaurant is
   deleted, in their order *)
RECURSIVE Cascade(_, _)
Cascade(stored, r) ==
    IF stored = <<>> THEN <<>>
    ELSE IF Head(stored).restaurant_id # r
    THEN <<Head(stored)>> \o Cascade(Tail(stored), r)
    ELSE Cascade(Tail(stored), r)

(* an id under which a new Order row is inserted: one that no stored row and
   no request in progress has *)
FreshOrderId ==
    CHOOSE id \in 1..(MaxOrders + 1) :
       /\ \A n \in 1..Len(orders) : orders[n].id # id
       /\ api.op \in {"create_order", "update_order"} => api.row.id # id

(* serializers.py:184-201: the Order row and its OrderItem rows that
   OrderSerializer.create inserts for a posted order *)
PostedOrder(id, restaurant_id, customer_name) ==
    [id |-> id, restaurant_id |-> restaurant_id,
     items |-> <<[dish |-> "d1", name |-> "Naan", price |-> 15000, quantity |-> 1]>>,
     total |-> 15000, status |-> "pending", customer_name |-> customer_name,
     table_number |-> "T1"]

(* views.py:63-69: POST /orders/ (ModelViewSet.create, serializer.is_valid),
   open to anyone: the posted restaurant and dish are looked up *)
CreateOrder ==
    /\ api = NoCall
    /\ Len(orders) < MaxOrders
    /\ \E rid \in {"R1"} :
         /\ rid \in DOMAIN restaurants
         /\ "d1" \in DOMAIN dishes
         /\ api' = [op |-> "post_order", row |-> PostedOrder(0, rid, "A")]
    /\ UNCHANGED <<dishes, restaurants, orders>>
    /\ StoreFrame

(* serializers.py:184-186: Order.objects.create inserts the Order row, without
   items yet; the insert fails when the restaurant was deleted meanwhile *)
CreateOrderInsert ==
    /\ api.op = "post_order"
    /\ IF api.row.restaurant_id \in DOMAIN restaurants
       THEN /\ orders' = Append(orders, [api.row EXCEPT !.id = FreshOrderId,
                                                        !.items = <<>>])
            /\ api' = [op |-> "create_order",
                       row |-> [api.row EXCEPT !.id = FreshOrderId]]
       ELSE /\ api' = NoCall
            /\ UNCHANGED orders
    /\ UNCHANGED <<dishes, restaurants>>
    /\ StoreFrame

(* serializers.py:188-201: the OrderItem rows are inserted; the insert fails
   when the order or a dish was deleted meanwhile, and the order, if it is
   still stored, stays without items *)
CreateOrderItems ==
    /\ api.op = "create_order"
    /\ orders' = [n \in 1..Len(orders) |->
                    IF /\ orders[n].id = api.row.id
                       /\ \A i \in 1..Len(api.row.items) :
                             api.row.items[i].dish \in DOMAIN dishes
                    THEN [orders[n] EXCEPT !.items = api.row.items]
                    ELSE orders[n]]
    /\ api' = NoCall
    /\ UNCHANGED <<dishes, restaurants>>
    /\ StoreFrame

(* views.py:63-69: PATCH /orders/<id>/ (ModelViewSet.update) by the owner:
   get_object reads the row and the posted customer_name is set on it;
   status is read-only (serializers.py:182) *)
UpdateOrder ==
    /\ api = NoCall
    /\ \E n \in 1..Len(orders), name \in {"A", "B"} :
         /\ orders[n].customer_name # name
         /\ orders[n].table_number = "T1"
         /\ api' = [op |-> "update_order",
                    row |-> [orders[n] EXCEPT !.customer_name = name]]
    /\ UNCHANGED <<dishes, restaurants, orders>>
    /\ StoreFrame

(* ModelViewSet.update, serializer.save: Model.save writes the columns of the
   Order row, and inserts the row when it was deleted meanwhile (the insert
   fails when its restaurant is gone); the OrderItem rows are not written *)
UpdateOrderSave ==
    /\ api.op = "update_order"
    /\ orders' =
         IF \E n \in 1..Len(orders) : orders[n].id = api.row.id
         THEN [n \in 1..Len(orders) |->
                 IF orders[n].id = api.row.id
                 THEN [api.row EXCEPT !.items = orders[n].items]
                 ELSE orders[n]]
         ELSE IF api.row.restaurant_id \in DOMAIN restaurants
         THEN Append(orders, [api.row EXCEPT !.items = <<>>])
         ELSE orders
    /\ api' = NoCall
    /\ UNCHANGED <<dishes, restaurants>>
    /\ StoreFrame

(* views.py:63-69: DELETE /orders/<id>/ (ModelViewSet.destroy) by the owner
   removes the Order row and its OrderItem rows (models.py:116) *)
DestroyOrder ==
    /\ \E n \in 1..Len(orders) :
         orders' = SubSeq(orders, 1, n - 1) \o SubSeq(orders, n + 1, Len(orders))
    /\ UNCHANGED <<dishes, restaurants, api>>
    /\ StoreFrame

(* views.py:43-52: POST /dishes/ by the restaurant's owner
   (DishViewSet.perform_create, serializer.save) inserts a Dish row under a
   new id *)
CreateDish ==
    /\ \E d \in NewDishes :
         /\ d \notin DOMAIN dishes
         /\ \A rec \in index : rec.id # d
         /\ d \notin rebuild.ids
         /\ api.op = "update_dish" => api.row.id # d
         /\ DishTable(d).restaurant \in DOMAIN restaurants
         /\ dishes' = [x \in DOMAIN dishes \cup {d} |->
                          IF x = d THEN DishTable(d) ELSE dishes[x]]
    /\ UNCHANGED <<restaurants, orders, api>>
    /\ StoreFrame

(* views.py:31-34: PUT or PATCH /dishes/<id>/ (DishViewSet,
   ModelViewSet.update): get_object reads the row and the posted fields are
   set on it *)
UpdateDish ==
    /\ api = NoCall
    /\ \E d \in DOMAIN dishes :
         \E row \in DishRevisions(d) :
            /\ row # dishes[d]
            /\ api' = [op |-> "update_dish", row |-> row]
    /\ UNCHANGED <<dishes, restaurants, orders>>
    /\ StoreFrame

(* ModelViewSet.update, serializer.save: Model.save writes the Dish row, and
   inserts it when it was deleted meanwhile (the insert fails when its
   restaurant is gone) *)
UpdateDishSave ==
    /\ api.op = "update_dish"
    /\ dishes' =
         IF api.row.id \in DOMAIN dishes \/ api.row.restaurant \in DOMAIN restaurants
         THEN [x \in DOMAIN dishes \cup {api.row.id} |->
                 IF x = api.row.id THEN api.row ELSE dishes[x]]
         ELSE dishes
    /\ api' = NoCall
    /\ UNCHANGED <<restaurants, orders>>
    /\ StoreFrame

(* views.py:31-34: DELETE /dishes/<id>/ (DishViewSet, ModelViewSet.destroy)
   removes a Dish row; the order items naming it lose the dish
   (models.py:117) *)
DeleteDish ==
    /\ \E d \in DOMAIN dishes :
         /\ dishes' = [x \in DOMAIN dishes \ {d} |-> dishes[x]]
         /\ orders' = SetNull(orders, {d})
    /\ UNCHANGED <<restaurants, api>>
    /\ StoreFrame

(* views.py:22-29: POST /restaurants/ by a signed-in user
   (RestaurantViewSet.perform_create) inserts a Restaurant row under a new id *)
CreateRestaurant ==
    /\ \E r \in NewRestaurants :
         /\ r \notin DOMAIN restaurants
         /\ api.op = "update_restaurant" => api.row.id # r
         /\ restaurants' = [x \in DOMAIN restaurants \cup {r} |->
                              IF x = r THEN RestaurantTable(r) ELSE restaurants[x]]
    /\ UNCHANGED <<dishes, orders, api>>
    /\ StoreFrame

(* views.py:22-25: PUT or PATCH /restaurants/<id>/ (ModelViewSet.update), open
   to anyone: get_object reads the row and the posted name is set on it *)
UpdateRestaurant ==
    /\ api = NoCall
    /\ \E r \in DOMAIN restaurants :
         \E row \in RestaurantRevisions(r) :
            /\ row # restaurants[r]
            /\ api' = [op |-> "update_restaurant", row |-> row]
    /\ UNCHANGED <<dishes, restaurants, orders>>
    /\ StoreFrame

(* ModelViewSet.update, serializer.save: Model.save writes the Restaurant row,
   and inserts it when it was deleted meanwhile *)
UpdateRestaurantSave ==
    /\ api.op = "update_restaurant"
    /\ restaurants' = [x \in DOMAIN restaurants \cup {api.row.id} |->
                         IF x = api.row.id THEN api.row ELSE restaurants[x]]
    /\ api' = NoCall
    /\ UNCHANGED <<dishes, orders>>
    /\ StoreFrame

(* views.py:22-25: DELETE /restaurants/<id>/ (ModelViewSet.destroy), open to
   anyone, removes the Restaurant row, its Dish rows (models.py:63) and its
   Order rows (models.py:103); the items of other orders naming its dishes
   lose the dish; chat sessions keep their restaurant_id (models.py:211) *)
DestroyRestaurant ==
    /\ \E r \in DOMAIN restaurants :
         LET gone == {d \in DOMAIN dishes : dishes[d].restaurant = r}
         IN
         /\ restaurants' = [x \in DOMAIN restaurants \ {r} |-> restaurants[x]]
         /\ dishes' = [x \in DOMAIN dishes \ gone |-> dishes[x]]
         /\ orders' = SetNull(Cascade(orders, r), gone)
    /\ UNCHANGED api
    /\ StoreFrame

-----------------------------------------------------------------------------
(* The index rebuild command and direct retrieval calls *)

NoRebuild == [pc |-> "idle", ids |-> {}, records |-> {}]
NoProbe ==
    [restaurant_id |-> "", user_query |-> "", k |-> 0, docs |-> <<>>, context |-> <<>>]

(* index_to_chroma.py:17-61: the dishes are read; none: the command returns *)
RebuildStart ==
    /\ rebuild.pc = "idle"
    /\ rebuild' = IF DOMAIN dishes = {} THEN NoRebuild
                   ELSE [pc |-> "delete", ids |-> DOMAIN dishes,
                         records |-> {IndexRecord(dishes[d], restaurants) : d \in DOMAIN dishes}]
    /\ UNCHANGED <<restaurants, api, dishes, index, probe, trial, sessions, orders, req, resp, turns>>

(* index_to_chroma.py:70-74: collection.delete() clears the collection or
   raises, by the library's version; the error is swallowed *)
RebuildDelete ==
    /\ rebuild.pc = "delete"
    /\ \E cleared \in BOOLEAN : index' = IF cleared THEN {} ELSE index
    /\ rebuild' = [rebuild EXCEPT !.pc = "add"]
    /\ UNCHANGED <<restaurants, api, dishes, probe, trial, sessions, orders, req, resp, turns>>

(* index_to_chroma.py:77-82: collection.add; a record whose id is already in
   the collection is left as it is.  The libraries that raise on such an id
   are those before PersistentClient, which line 17 needs: under them the
   command fails at line 17 and never comes here. *)
RebuildAdd ==
    /\ rebuild.pc = "add"
    /\ index' = index \cup {new \in rebuild.records :
                                \A rec \in index : rec.id # new.id}
    /\ rebuild' = NoRebuild
    /\ UNCHANGED <<restaurants, api, dishes, probe, trial, sessions, orders, req, resp, turns>>

(* the direct calls: for R1 every k of the bounds under both orders of
   relevance, and one call each for another restaurant, an unknown restaurant
   and a blank query *)
QueryInputs ==
    {<<"R1", q, k>> : q \in {"spicy", "mild"}, k \in 1..MaxK}
    \cup {<<"R2", "spicy", MaxK>>, <<"R9", "spicy", MaxK>>, <<"R1", " ", MaxK>>}

(* retrieval.py:23: retrieve_menu_items(restaurant_id, user_query, k) is called
   and build_menu_context (retrieval.py:76) formats what it returns *)
Query ==
    /\ \E call \in QueryInputs :
         LET rid == call[1]  q == call[2]  k == call[3] IN
         probe' = [restaurant_id |-> rid, user_query |-> q, k |-> k,
                   docs |-> RetrieveMenuItems(index, rid, q, k),
                   context |-> BuildMenuContext(RetrieveMenuItems(index, rid, q, k))]
    /\ UNCHANGED <<restaurants, api, dishes, index, rebuild, trial, sessions, orders, req, resp, turns>>

-----------------------------------------------------------------------------
(* The parser and the executor run directly on given inputs *)

NoOutcome ==
    [ok |-> FALSE, exc |-> NoExc, intent |-> NoneVal, reply |-> NoneVal,
     cart |-> <<>>, orders |-> <<>>]

NoTrial ==
    [stage |-> "none", content |-> <<>>, context_items |-> <<>>, cart |-> <<>>,
     restaurant_id |-> "", result |-> NoneVal, out |-> NoOutcome]

(* the item the view builds for a dish (views.py:243-249) *)
ContextItem(d) ==
    [id |-> d, name |-> DishTable(d).name, price |-> DishTable(d).price,
     calories |-> DishTable(d).calories, tags |-> DishTable(d).tags]

(* sequences without repetition of at most n elements of a set *)
RECURSIVE Arrangements(_, _)
Arrangements(set, n) ==
    IF n = 0 THEN {<<>>}
    ELSE {<<>>} \cup {<<x>> \o rest : x \in set, rest \in Arrangements(set, n - 1)}

NoRepeat(xs) == \A i, j \in 1..Len(xs) : xs[i] = xs[j] => i = j

TrialContexts ==
    {xs \in Arrangements({ContextItem(d) : d \in {"d1", "d2", "d4"}}, MaxContext) :
        NoRepeat(xs)}

(* the Menu Store of a trial: as at the start, after Dal was deleted, and
   after Naan was renamed; the context items are those of the index, which a
   change of the store does not touch *)
TrialStores ==
    {InitialStore,
     [d \in AllDishes \ {"d2"} |-> DishTable(d)],
     [InitialStore EXCEPT !["d1"] = CHOOSE row \in DishRevisions("d1") :
                                        row # DishTable("d1")]}

TrialCarts == {<<>>, <<CartEntry("d3", "Tikka", 25000, 1)>>, StoredSession.cart}

(* completions beyond those of the endpoint's model *)
TrialCompletions ==
    Completions \cup
    { Object3("add_to_cart", "Ok.", <<LS, S("dal"), CM, S("Naan"), RS>>),
      Object3("add_to_cart", "Ok.", <<LS, N("1"), RS>>),
      Object3("add_to_cart", "Ok.", <<S("naan")>>),
      Object3("add_to_cart", "Ok.", <<S("NAAN")>>),
      Object3("add_to_cart", "Ok.", <<LS, S("nAAN"), CM, S("Pizza"), RS>>),
      Object3("describe_dish", "", <<LS, S("dAL"), RS>>),
      Object3("describe_dish", "It is nice.", <<LS, S("RAITA"), RS>>),
      Object3("describe_dish", "Both are good.", <<LS, S("naan"), CM, S("DAL"), RS>>),
      Object3("chat", "Hi.", <<LB, S("Naan"), CL, N("2"), RB>>),
      Object3("remove_from_cart", "Removed the naan.", <<LS, S("Naan"), RS>>),
      Object3("update_quantity", "Two dal it is.", <<LS, S("Dal"), RS>>),
      <<LB>> \o Field("intent", <<S("add_to_cart")>>) \o <<CM>>
             \o Field("items", <<LS, S("Dal"), RS>>) \o <<RB>>,
      <<LB>> \o Field("reply", <<N("7")>>) \o <<CM>>
             \o Field("intent", <<NUL>>) \o <<RB>>,
      <<LB, S("intent"), CL, S("confirm_order")>>,
      <<LB, S("intent"), S("chat"), RB>>,
      <<LS, S("Naan"), CM, RS>>,
      <<LB, RB, W("Enjoy!")>>,
      <<LB, RB>>,
      <<S("Hello")>>,
      <<N("42"), WS>>,
      <<WS>>,
      <<>> }

(* llm.py:127-135 on the trial's completion *)
TrialGenerate ==
    /\ trial.stage = "input"
    /\ LET g == GenerateResponse(trial.content) IN
       trial' = IF g.ok
                THEN [trial EXCEPT !.stage = "parsed", !.result = g.result]
                ELSE [trial EXCEPT !.stage = "done",
                                   !.out = [NoOutcome EXCEPT !.exc = g.exc]]
    /\ UNCHANGED <<restaurants, api, dishes, index, rebuild, probe, sessions, orders, req, resp, turns>>

(* views.py:268-319 on the trial's parsed result, context and cart *)
TrialExecute ==
    /\ trial.stage = "parsed"
    /\ trial' = [trial EXCEPT
                   !.stage = "done",
                   !.out = ExecuteIntent(trial.result, trial.context_items, trial.cart,
                                         trial.restaurant_id, dishes, orders)]
    /\ UNCHANGED <<restaurants, api, dishes, index, rebuild, probe, sessions, orders, req, resp, turns>>

-----------------------------------------------------------------------------
(* Specifications *)

Init ==
    /\ dishes = InitialStore
    /\ restaurants = InitialRestaurants
    /\ index = InitialIndex
    /\ rebuild = NoRebuild
    /\ probe = NoProbe
    /\ trial = NoTrial
    /\ sessions = <<StoredSession>>
    /\ orders = <<>>
    /\ api = NoCall
    /\ req = [p \in Procs |-> Idle]
    /\ resp = [p \in Procs |-> NoResponse]
    /\ turns = 0

Next ==
    \/ \E p \in Procs :
          \/ Start(p)
          \/ LoadSession(p)
          \/ Retrieve(p)
          \/ Execute(p)
          \/ Save(p)
    \/ CreateOrder
    \/ CreateOrderInsert
    \/ CreateOrderItems
    \/ DestroyOrder

(* the chat endpoint served by NumProcs workers, beside the posting and the
   deleting of orders.  The menu and its index are those of the start: their
   changes are followed under SpecIndex, the executor meets a changed menu
   under SpecExec, and the three store endpoints run together under
   SpecStore. *)
Spec == Init /\ [][Next]_vars

NextIndex ==
    \/ CreateDish
    \/ UpdateDish
    \/ UpdateDishSave
    \/ DeleteDish
    \/ RebuildStart
    \/ RebuildDelete
    \/ RebuildAdd
    \/ Query

(* the menu under the dishes endpoint and the index under rebuilds, with
   retrieval called directly *)
SpecIndex == Init /\ [][NextIndex]_vars

NextStore ==
    \/ CreateRestaurant
    \/ UpdateRestaurant
    \/ UpdateRestaurantSave
    \/ DestroyRestaurant
    \/ CreateDish
    \/ UpdateDish
    \/ UpdateDishSave
    \/ DeleteDish
    \/ CreateOrder
    \/ CreateOrderInsert
    \/ CreateOrderItems
    \/ UpdateOrder
    \/ UpdateOrderSave
    \/ DestroyOrder

(* the restaurants, dishes and orders endpoints together, one request of
   several steps at a time among any number of one-step requests *)
SpecStore == Init /\ [][NextStore]_vars

InitExec ==
    /\ dishes \in TrialStores
    /\ restaurants = InitialRestaurants
    /\ index = InitialIndex
    /\ rebuild = NoRebuild
    /\ probe = NoProbe
    /\ trial \in {[NoTrial EXCEPT !.stage = "input", !.content = c,
                                  !.context_items = ctx, !.cart = cart,
                                  !.restaurant_id = rid] :
                     c \in TrialCompletions, ctx \in TrialContexts,
                     cart \in TrialCarts, rid \in {"R1", "R2"}}
    /\ sessions = <<StoredSession>>
    /\ orders = <<>>
    /\ api = NoCall
    /\ req = [p \in Procs |-> Idle]
    /\ resp = [p \in Procs |-> NoResponse]
    /\ turns = 0

NextExec == TrialGenerate \/ TrialExecute

(* generate_response and the intent executor applied to every input of the bounds *)
SpecExec == InitExec /\ [][NextExec]_vars

-----------------------------------------------------------------------------
(* Properties *)

(* worker p holds a loaded session it has not yet saved *)
InTurn(p) == req[p].pc \in {"retrieve", "generate", "save"}

(* worker p returns a response in this step *)
Completes(p) == req[p].pc # "idle" /\ req'[p].pc = "idle"

(* the parsed output classifies the turn as the given intent and can be read *)
Classified(result, intent) ==
    /\ result.t = "dict"
    /\ DictGet(result, "intent", Str("chat")) = Str(intent)
    /\ MentionedItems(result).ok

(* C1: turns on the same session are mutually exclusive between the load of
   the session and its save, so that no cart update of one turn is overwritten
   by the save of another: no two workers hold the same session loaded and
   unsaved at once. *)
C1_PerSessionMutualExclusion ==
    \A p, q \in Procs :
        (p # q /\ InTurn(p) /\ InTurn(q))
            => req[p].chat_session.id # req[q].chat_session.id

(* the names the parsed output reports in items, as the model wrote them *)
ReportedNames(result) ==
    LET items == DictGet(result, "items", List(<<>>)) IN
    IF items.t = "list" THEN {items.v[n].v : n \in 1..Len(items.v)} ELSE {}

(* two names that differ at most in the case of their letters *)
CaseClasses ==
    {{"Naan", "NAAN", "nAAN", "naan"}, {"Dal", "DAL", "dAL", "dal"},
     {"Raita", "RAITA", "raita"}, {"Tikka", "TIKKA", "tikka"},
     {"Pizza", "pizza"}}
EqualIgnoringCase(a, b) == a = b \/ \E c \in CaseClasses : a \in c /\ b \in c

(* a finished trial of an add_to_cart turn whose items are a list of names *)
AddTrial ==
    /\ trial.stage = "done"
    /\ trial.out.ok
    /\ trial.out.intent = Str("add_to_cart")
    /\ DictGet(trial.result, "items", List(<<>>)).t = "list"

(* the entries the trial's turn appended to the cart *)
Appended == SubSeq(trial.out.cart, Len(trial.cart) + 1, Len(trial.out.cart))

(* C2: in an add_to_cart turn every entry appended to the cart is the entry of
   an item of the turn's context whose name equals, ignoring case, a name the
   model reported; a reported name that equals no context item's name adds no
   entry. *)
C2_AddOnlyMatchedContextItems ==
    AddTrial =>
        /\ Len(trial.out.cart) >= Len(trial.cart)
        /\ SubSeq(trial.out.cart, 1, Len(trial.cart)) = trial.cart
        /\ \A n \in 1..Len(Appended) :
              \E i \in 1..Len(trial.context_items) :
                 /\ Appended[n] = CartEntry(trial.context_items[i].id,
                                            trial.context_items[i].name,
                                            trial.context_items[i].price, 1)
                 /\ \E name \in ReportedNames(trial.result) :
                       EqualIgnoringCase(trial.context_items[i].name, name)
        /\ \A name \in ReportedNames(trial.result) :
              (\A i \in 1..Len(trial.context_items) :
                  ~EqualIgnoringCase(trial.context_items[i].name, name))
              => \A n \in 1..Len(Appended) : ~EqualIgnoringCase(Appended[n].name, name)

(* an add_to_cart turn whose context holds Naan and Raita and whose model
   reported NAAN and Pizza: the Naan entry was appended, nothing else *)
C2_Witness ==
    /\ AddTrial
    /\ ReportedNames(trial.result) = {"NAAN", "Pizza"}
    /\ trial.context_items = <<ContextItem("d4"), ContextItem("d1")>>
    /\ trial.cart # <<>>
    /\ Appended = <<CartEntry("d1", "Naan", 15000, 1)>>

(* worker p ends, in this step, a turn classified confirm_order on a session
   loaded with a non-empty cart *)
ConfirmsNonEmpty(p) ==
    /\ Completes(p)
    /\ Classified(resp'[p].turn.result, "confirm_order")
    /\ resp'[p].turn.loaded.cart # <<>>

(* C3: a confirm_order turn on a session whose cart is not empty creates
   exactly one Order, pending, whose line items are the cart entries, and the
   cart is empty after it in the response and in the stored session. *)
C3_ConfirmCreatesOneOrder ==
    [][\A p \in Procs :
        ConfirmsNonEmpty(p) =>
            /\ resp'[p].status = 200
            /\ Cardinality({n \in 1..Len(orders') :
                    /\ orders'[n].items = resp'[p].turn.loaded.cart
                    /\ orders'[n].status = "pending"}) = 1
            /\ resp'[p].body.cart = <<>>
            /\ sessions'[resp'[p].turn.loaded.id].cart = <<>>]_vars

(* the sum of unit price times quantity over the entries of a cart *)
RECURSIVE SumOfLines(_, _)
SumOfLines(cart, n) ==
    IF n = 0 THEN 0 ELSE cart[n].price * cart[n].qty + SumOfLines(cart, n - 1)

(* C4: the Order a confirm_order turn creates for a non-empty cart stores the
   sum of unit price times quantity of the cart entries, and the reply of the
   turn reports that total to two decimal places with the order's id. *)
C4_OrderTotalIsSumAndReported ==
    [][\A p \in Procs :
        ConfirmsNonEmpty(p) =>
            LET cart == resp'[p].turn.loaded.cart
                total == SumOfLines(cart, Len(cart))
            IN /\ resp'[p].status = 200
               /\ \E n \in 1..Len(orders') :
                     /\ orders'[n].items = cart
                     /\ orders'[n].total = total
                     /\ resp'[p].body.reply =
                           FStr("order_placed",
                                <<orders'[n].id,
                                  [whole |-> total \div 100, frac |-> total % 100]>>)]_vars

(* the response of worker p answers a turn classified confirm_order on a
   session loaded with an empty cart *)
ConfirmedEmpty(p) ==
    /\ resp[p].status # 0
    /\ Classified(resp[p].turn.result, "confirm_order")
    /\ resp[p].turn.loaded.id # 0
    /\ resp[p].turn.loaded.cart = <<>>

(* C5: a confirm_order turn on a session whose cart is empty succeeds with the
   empty-cart notice as its reply, creates no Order (the chat endpoint has
   stored no order without items) and leaves the cart empty. *)
C5_ConfirmEmptyCartIsNoOp ==
    \A p \in Procs :
        ConfirmedEmpty(p) =>
            /\ resp[p].status = 200
            /\ resp[p].body.reply = FStr("cart_empty", <<>>)
            /\ resp[p].body.intent = Str("confirm_order")
            /\ resp[p].body.cart = <<>>
            /\ \A n \in 1..Len(orders) :
                  orders[n].table_number = "Virtual" => orders[n].items # <<>>
            /\ sessions[resp[p].body.session_id].cart = <<>>

C5_Witness ==
    \E p \in Procs :
        /\ ConfirmedEmpty(p)
        /\ resp[p].status = 200
        /\ resp[p].turn.created
        /\ sessions[resp[p].body.session_id].cart = <<>>
        /\ orders = <<>>

(* worker p ends, in this step, a turn that reached an intent branch: the
   model's output was an object whose items could be read *)
EndsProcessedTurn(p) ==
    /\ Completes(p)
    /\ resp'[p].turn.result.t = "dict"
    /\ MentionedItems(resp'[p].turn.result).ok

(* C6: every processed turn, whichever intent branch it executed, appends
   exactly two entries to the stored history of its session: the user's
   utterance, then the reply returned to the caller with the turn's intent and
   context items. *)
C6_TwoHistoryEntriesPerTurn ==
    [][\A p \in Procs :
        EndsProcessedTurn(p) =>
            /\ resp'[p].status = 200
            /\ LET id == resp'[p].body.session_id IN
               sessions'[id].history =
                   sessions[id].history
                       \o <<UserTurn(req[p].user_query),
                            AssistantTurn(resp'[p].body.reply, resp'[p].body.intent,
                                          resp'[p].body.context_items)>>]_vars

(* the response of worker p answers a turn for which the model returned a
   text, other than a well-formed confirm_order *)
AnsweredModelOutput(p) ==
    /\ resp[p].status # 0
    /\ resp[p].turn.result.t # "none"
    /\ ~Classified(resp[p].turn.result, "confirm_order")

(* C7: whatever text the model returns (not valid JSON, JSON that is not an
   object, an object without intent, reply or items, items that is not a list
   of strings), the turn is answered with a success and never a server error. *)
C7_MalformedOutputNeverFailsTurn ==
    \A p \in Procs : AnsweredModelOutput(p) => resp[p].status = 200

(* completions that json.loads rejects, each with its text without the
   whitespace around it *)
Undecodable ==
    { << <<WS, W("Sorry, I cannot help."), WS>>, <<W("Sorry, I cannot help.")>> >>,
      << <<LB, S("intent"), CL, S("confirm_order")>>,
         <<LB, S("intent"), CL, S("confirm_order")>> >>,
      << <<LB, S("intent"), S("chat"), RB>>, <<LB, S("intent"), S("chat"), RB>> >>,
      << <<LS, S("Naan"), CM, RS>>, <<LS, S("Naan"), CM, RS>> >>,
      << <<LB, RB, W("Enjoy!")>>, <<LB, RB, W("Enjoy!")>> >>,
      << <<WS>>, <<>> >>,
      << <<>>, <<>> >> }

(* the record generate_response falls back to, with the given reply *)
ChatFallback(reply) ==
    Dict(<<[key |-> "intent", val |-> Str("chat")],
           [key |-> "reply", val |-> RawStr(reply)],
           [key |-> "items", val |-> List(<<>>)]>>)

(* C8 (as the code has it): for a completion that cannot be decoded,
   generate_response does not raise and returns intent chat, no items, and as
   reply the completion's text with the whitespace around it removed. *)
C8_FallbackOnUndecodable ==
    \A u \in Undecodable :
        (trial.content = u[1] /\ trial.stage # "input")
            => trial.result = ChatFallback(u[2])

(* the padded plain-text completion was parsed into the fallback record *)
C8_Witness ==
    /\ trial.content = <<WS, W("Sorry, I cannot help."), WS>>
    /\ trial.stage = "parsed"
    /\ trial.result = ChatFallback(<<W("Sorry, I cannot help.")>>)

(* C8 (as stated): for a completion that cannot be decoded, generate_response
   does not raise and returns intent chat, no items, and as reply the raw text
   of the completion. *)
C8_FallbackReplyIsRawText ==
    \A u \in Undecodable :
        (trial.content = u[1] /\ trial.stage # "input")
            => trial.result = ChatFallback(trial.content)

(* C9: in every state of the index, a rebuild in progress or not, a retrieval
   scoped to a restaurant returns at most k items, each indexed under that
   restaurant. *)
C9_RetrievalScopedAndBounded ==
    /\ Len(probe.docs) <= probe.k
    /\ \A n \in 1..Len(probe.docs) :
          DishTable(probe.docs[n].meta.dish_id).restaurant = probe.restaurant_id

(* a query for R1 with k = 2, made between the delete and the add of a rebuild
   while the index held R1's three dishes and a dish of R2, returned two *)
C9_Witness ==
    /\ probe.restaurant_id = "R1"
    /\ probe.k = 2
    /\ Len(probe.docs) = 2
    /\ rebuild.pc = "add"
    /\ \E rec \in index : rec.meta.restaurant_id = "R2"
    /\ Cardinality({rec \in index : rec.meta.restaurant_id = "R1"}) = 3

(* C10: a request whose restaurant_id matches no restaurant is answered with
   the not-found error and has created no session. *)
C10_NotFoundCreatesNoSession ==
    \A p \in Procs : resp[p].status = 404 => ~resp[p].turn.created

(* the response worker p has after this step is new and answers a request
   that lacks restaurant_id or user_query *)
AnswersIncomplete(p) ==
    /\ resp'[p] # resp[p]
    /\ resp'[p].status # 0
    /\ (resp'[p].turn.restaurant_id = "" \/ resp'[p].turn.user_query = "")

(* C11: a request that lacks restaurant_id or user_query is answered with the
   client error in the step that receives it: no session is loaded or created
   for it, the sessions, the orders and the index are as before, and the
   request reaches neither retrieval nor the model. *)
C11_BadRequestMutatesNothing ==
    [][\A p \in Procs :
        AnswersIncomplete(p) =>
            /\ resp'[p].status = 400
            /\ req[p].pc = "idle" /\ req'[p].pc = "idle"
            /\ resp'[p].turn.loaded = NoSession
            /\ ~resp'[p].turn.created
            /\ resp'[p].turn.result.t = "none"
            /\ sessions' = sessions
            /\ orders' = orders
            /\ index' = index]_vars

(* a request with a restaurant and no utterance, naming the stored session,
   was rejected; the stored session and the orders are those of the start *)
C11_Witness ==
    \E p \in Procs :
        /\ resp[p].status = 400
        /\ resp[p].turn.restaurant_id = "R1"
        /\ resp[p].turn.user_query = ""
        /\ resp[p].turn.session_id = 1
        /\ sessions = <<StoredSession>>
        /\ orders = <<>>

(* worker p ends, in this step, a turn on a session that existed before it,
   because retrieval or the model call failed *)
FailsUpstream(p) ==
    /\ Completes(p)
    /\ resp'[p].error = UpstreamError
    /\ resp'[p].turn.loaded.id # 0
    /\ ~resp'[p].turn.created

(* worker p takes, in this step, a step of a turn on a session that existed
   before it, up to and including the model call *)
StepsBeforeSave(p) ==
    /\ req[p].pc \in {"retrieve", "generate"}
    /\ ~req[p].created
    /\ req'[p] # req[p]

(* C12: a turn on an existing session that fails in retrieval or in the model
   call is answered with a server error, and neither that step nor an earlier
   step of the turn has changed a stored session or an order: the history and
   the cart the turn loaded are still those it holds, unsaved. *)
C12_UpstreamFailureCommitsNothing ==
    [][\A p \in Procs :
        /\ FailsUpstream(p) =>
              /\ resp'[p].status = 500
              /\ sessions' = sessions
              /\ orders' = orders
              /\ req[p].chat_session = resp'[p].turn.loaded
        /\ StepsBeforeSave(p) =>
              /\ sessions' = sessions
              /\ req'[p].pc # "idle" => req'[p].loaded = req[p].loaded]_vars

(* one turn on the stored session failed in the model call (a blank utterance
   is not sent to retrieval), another in retrieval; the session is stored as
   it was and there is no order *)
C12_Witness ==
    \E p, q \in Procs :
        /\ p # q
        /\ resp[p].status = 500 /\ resp[p].error = UpstreamError
        /\ resp[p].turn.loaded = StoredSession
        /\ resp[p].turn.user_query = " "
        /\ resp[q].status = 500 /\ resp[q].error = UpstreamError
        /\ resp[q].turn.loaded = StoredSession
        /\ resp[q].turn.user_query = "spicy"
        /\ sessions = <<StoredSession>>
        /\ orders = <<>>

(* C13: a turn that ends in a server error, at whatever step it fails, has
   committed nothing: it has stored no session of its own, and an order of the
   chat endpoint exists only beside a session saved with an empty cart and the
   entries of a turn. *)
C13_ServerErrorCommitsNothing ==
    /\ \A p \in Procs : resp[p].status = 500 => ~resp[p].turn.created
    /\ (\E o \in 1..Len(orders) : orders[o].table_number = "Virtual") =>
          \E n \in 1..Len(sessions) :
              sessions[n].cart = <<>> /\ sessions[n].history # <<>>

(* the response of worker p answers a complete request that supplied the
   session id sid, which matches no stored session *)
AnsweredUnmatched(p, sid) ==
    /\ resp[p].status \notin {0, 400}
    /\ resp[p].turn.session_id = sid
    /\ WellFormedId(resp[p].turn.restaurant_id)

(* the request answered by worker p's response was given a new, empty session
   of its restaurant, and a successful response carries that session's id *)
GivenNewSession(p) ==
    /\ resp[p].turn.created
    /\ resp[p].turn.loaded = NewSession(resp[p].turn.loaded.id, resp[p].turn.restaurant_id)
    /\ resp[p].turn.loaded.id \in 1..Len(sessions)
    /\ resp[p].error # ValidationError
    /\ resp[p].status = 200 => resp[p].body.session_id = resp[p].turn.loaded.id

(* C14: a turn that supplies a session id matching no stored session is not an
   error: a new session with empty history and cart is created for the
   request's restaurant, the turn runs on it and the response carries its id. *)
C14_UnmatchedSessionIdFallsBack ==
    \A p \in Procs :
        \A sid \in {UnknownSession, MalformedSession} :
            AnsweredUnmatched(p, sid) => GivenNewSession(p)

(* C15: the intent of every successful response, and of the assistant entry
   the turn recorded, is one of the sixteen intents of the closed set,
   whatever the model returned. *)
C15_IntentInClosedSet ==
    \A p \in Procs :
        resp[p].status = 200 =>
            /\ resp[p].body.intent \in {Str(i) : i \in ClosedIntents}
            /\ resp[p].body.history[Len(resp[p].body.history)].intent
                  \in {Str(i) : i \in ClosedIntents}

(* the intents the executor has a branch for *)
ExecutedIntents == {Str("add_to_cart"), Str("describe_dish"), Str("confirm_order")}

(* a finished trial of a turn whose intent has no branch *)
OtherIntentTrial ==
    /\ trial.stage = "done"
    /\ trial.out.ok
    /\ trial.out.intent \notin ExecutedIntents

(* C16: a turn whose intent is none of add_to_cart, describe_dish and
   confirm_order returns the model's reply as it is, leaves the cart as it was
   and creates no order. *)
C16_OtherIntentsPassThrough ==
    OtherIntentTrial =>
        /\ trial.out.reply = DictGet(trial.result, "reply", Str(""))
        /\ trial.out.cart = trial.cart
        /\ trial.out.orders = orders

(* a remove_from_cart turn naming Naan, with Naan in the context and in the
   cart, returned the model's reply and the cart with its Naan *)
C16_Witness ==
    /\ OtherIntentTrial
    /\ trial.out.intent = Str("remove_from_cart")
    /\ ReportedNames(trial.result) = {"Naan"}
    /\ trial.context_items = <<ContextItem("d1")>>
    /\ trial.cart = StoredSession.cart
    /\ trial.out.cart = StoredSession.cart
    /\ trial.out.reply = Str("Removed the naan.")

(* worker p saves session n in this step *)
SavesSession(p, n) ==
    /\ req[p].pc = "save"
    /\ req'[p].pc = "idle"
    /\ req[p].chat_session.id = n

(* worker p creates session n in this step *)
CreatesSession(p, n) ==
    /\ req[p].pc = "load"
    /\ req'[p].created
    /\ req'[p].chat_session.id = n

(* C17: a turn on one session never changes the stored history or cart of
   another: a stored session changes only in the save of a turn on that very
   session, and a step changes or creates at most one session. *)
C17_SessionsIndependent ==
    [][/\ Len(sessions') >= Len(sessions)
       /\ \A n \in 1..Len(sessions) :
             sessions'[n] # sessions[n] =>
                 /\ \E p \in Procs : SavesSession(p, n)
                 /\ \A m \in 1..Len(sessions') : m # n =>
                       (m <= Len(sessions) /\ sessions'[m] = sessions[m])
       /\ \A n \in (Len(sessions) + 1)..Len(sessions') :
             /\ \E p \in Procs : CreatesSession(p, n)
             /\ \A m \in 1..Len(sessions) : sessions'[m] = sessions[m]]_vars

(* a turn on a second session has been saved while another worker is in a
   turn on the stored session, which is stored as it was *)
C17_Witness ==
    \E p, q \in Procs :
        /\ p # q
        /\ InTurn(p) /\ req[p].chat_session.id = 1
        /\ resp[q].status = 200 /\ resp[q].body.session_id = 2
        /\ Len(sessions) = 2
        /\ sessions[1] = StoredSession
        /\ Len(sessions[2].history) = 2

(* the lines of a text: the chunks between its line breaks *)
RECURSIVE SplitLines(_, _)
SplitLines(text, line) ==
    IF text = <<>> THEN <<line>>
    ELSE IF Head(text).k = "nl" THEN <<line>> \o SplitLines(Tail(text), <<>>)
    ELSE SplitLines(Tail(text), Append(line, Head(text)))

(* C18: build_menu_context of no items is the fixed no-match sentence; of a
   non-empty list it is a text of exactly one line per item, in the order of
   the items: the n-th line is the formatted n-th item. *)
C18_OneLinePerItem ==
    probe.k > 0 =>
        LET lines == SplitLines(probe.context, <<>>) IN
        IF probe.docs = <<>>
        THEN probe.context = <<Chunk("text", NoMatchSentence, 0)>>
        ELSE /\ Len(lines) = Len(probe.docs)
             /\ \A n \in 1..Len(probe.docs) : lines[n] = ContextLine(probe.docs[n])

(* the last min(5, n) entries of a sequence of n entries *)
Tail5(h) ==
    LET n == Len(h)
        m == IF n < 5 THEN n ELSE 5
    IN [i \in 1..m |-> h[n - m + i]]

(* C19: the history of a successful response is the last min(5, n) entries of
   the n entries the session is stored with by the turn, and it ends with the
   turn's user entry followed by its assistant entry. *)
C19_ResponseHistoryIsLastFive ==
    [][\A p \in Procs :
        (Completes(p) /\ resp'[p].status = 200) =>
            LET stored == sessions'[resp'[p].body.session_id].history
                shown == resp'[p].body.history
            IN /\ shown = Tail5(stored)
               /\ Len(shown) >= 2
               /\ shown[Len(shown) - 1] = UserTurn(req[p].user_query)
               /\ shown[Len(shown)] =
                     AssistantTurn(resp'[p].body.reply, resp'[p].body.intent,
                                   resp'[p].body.context_items)]_vars

(* the second turn on the stored session: six entries stored, the last five
   returned, the oldest left out *)
C19_Witness ==
    \E p \in Procs :
        /\ resp[p].status = 200
        /\ resp[p].body.session_id = 1
        /\ Len(sessions[1].history) = 6
        /\ Len(resp[p].body.history) = 5
        /\ resp[p].body.history[1] = sessions[1].history[2]
        /\ resp[p].body.history[5] = sessions[1].history[6]

(* C20: building the context items and the menu context of a turn from the
   items retrieval returned never fails: no turn ends with the error of a
   metadata key that a retrieved item does not have. *)
C20_ContextBuildsFromRetrievedItems ==
    \A p \in Procs : resp[p].status # 0 => resp[p].error[1] # "KeyError"

(* worker p is at, or past, the model call of a turn whose retrieval returned
   no item *)
GeneratesWithoutItems(p) ==
    /\ req[p].pc \in {"generate", "save"}
    /\ req[p].context_items = <<>>

(* C21: in a turn whose retrieval returned no item, the menu context given to
   the prompt is the fixed no-match sentence, never the empty text. *)
C21_EmptyRetrievalGivesNoMatchSentence ==
    \A p \in Procs :
        GeneratesWithoutItems(p) =>
            /\ req[p].menu_context # <<>>
            /\ req[p].menu_context = BuildMenuContext(<<>>)

(* s is a prefix of t *)
IsPrefix(s, t) == Len(s) <= Len(t) /\ SubSeq(t, 1, Len(s)) = s

(* C22: the stored history of every session is append-only, overlapping turns
   included: in every step the history stored before it is a prefix of the
   history stored after it. *)
C22_HistoryAppendOnly ==
    [][\A n \in 1..Len(sessions) :
          /\ n <= Len(sessions')
          /\ IsPrefix(sessions[n].history, sessions'[n].history)]_vars

(* some item of the trial's context has a name the model reported, ignoring case *)
SomeContextItemMatched ==
    \E i \in 1..Len(trial.context_items) :
        \E name \in ReportedNames(trial.result) :
            EqualIgnoringCase(trial.context_items[i].name, name)

(* the names of the entries the trial's turn appended, in order *)
AppendedNames == [n \in 1..Len(Appended) |-> Appended[n].name]

(* the reply the model wrote *)
ModelReply == DictGet(trial.result, "reply", Str(""))

(* C23: in an add_to_cart turn the reply is the deterministic confirmation if
   and only if some context item matched, and the confirmation lists exactly
   the names of the entries appended in the turn; when nothing matched the
   cart is unchanged and the reply is the model's own text. *)
C23_ConfirmationIffMatched ==
    AddTrial =>
        /\ trial.out.reply.t = "fstr" <=> SomeContextItemMatched
        /\ SomeContextItemMatched =>
              /\ Appended # <<>>
              /\ trial.out.reply = FStr("added", <<AppendedNames>>)
        /\ ~SomeContextItemMatched =>
              /\ trial.out.cart = trial.cart
              /\ trial.out.reply = ModelReply

(* an add_to_cart turn over the context Dal, Naan whose model reported both:
   the two entries were appended and the model's "Ok." was replaced by the
   confirmation naming Dal then Naan *)
C23_Witness ==
    /\ AddTrial
    /\ SomeContextItemMatched
    /\ ModelReply = Str("Ok.")
    /\ AppendedNames = <<"Dal", "Naan">>
    /\ trial.out.reply = FStr("added", <<<<"Dal", "Naan">>>>)

(* the rebuild command finishes in this step, having read a non-empty store *)
RebuildCompletes == rebuild.pc = "add" /\ rebuild'.pc = "idle"

(* C24: when an index rebuild completes, the dish ids held by the index are
   exactly the dishes the command read from the Menu Store: no entry of a dish
   that was no longer in the store survives the rebuild. *)
C24_RebuildReplacesIndex ==
    [][RebuildCompletes => {rec.id : rec \in index'} = rebuild.ids]_vars

(* a finished trial of a describe_dish turn whose items are a list of names *)
DescribeTrial ==
    /\ trial.stage = "done"
    /\ trial.out.ok
    /\ trial.out.intent = Str("describe_dish")
    /\ DictGet(trial.result, "items", List(<<>>)).t = "list"

(* the stored dishes of the request's restaurant that bear the name of a
   context item the model reported, ignoring case *)
ResolvedDishes ==
    {d \in DOMAIN dishes :
        /\ dishes[d].restaurant = trial.restaurant_id
        /\ \E i \in 1..Len(trial.context_items) :
              /\ EqualIgnoringCase(trial.context_items[i].name, dishes[d].name)
              /\ \E name \in ReportedNames(trial.result) :
                    EqualIgnoringCase(trial.context_items[i].name, name)}

(* C25: in a describe_dish turn the cart is unchanged and the reply is the
   description built from the stored Dish record when a context item matches a
   reported name and its Dish is found for the request's restaurant; otherwise
   the model's reply when it is non-empty; otherwise the fixed clarification
   question. *)
C25_DescribeDishReply ==
    DescribeTrial =>
        /\ trial.out.cart = trial.cart
        /\ trial.out.orders = orders
        /\ ResolvedDishes # {} =>
              \E d \in ResolvedDishes : trial.out.reply = Description(dishes[d])
        /\ (ResolvedDishes = {} /\ ~Falsy(ModelReply)) => trial.out.reply = ModelReply
        /\ (ResolvedDishes = {} /\ Falsy(ModelReply)) =>
              trial.out.reply = FStr("clarify", <<>>)

(* a describe_dish turn for R1 whose model reported dal with an empty reply,
   Dal being in the context and the cart non-empty: the reply is built from
   the stored record, which has no description and no calories *)
C25_Witness ==
    /\ DescribeTrial
    /\ trial.restaurant_id = "R1"
    /\ trial.cart # <<>>
    /\ ModelReply = Str("")
    /\ ResolvedDishes = {"d2"}
    /\ trial.out.reply =
          FStr("described", <<"Dal", "No description available.", 9950, Str("N/A")>>)

(* a finished trial whose executor raised nothing *)
ExecutedTrial == trial.stage = "done" /\ trial.out.ok

(* C26: every cart entry has quantity at least 1: an add_to_cart turn appends
   each new entry with quantity 1 and leaves every earlier entry, one for the
   same dish included, as it was; a turn of any other intent changes no
   entry. *)
C26_QuantitiesAtLeastOne ==
    ExecutedTrial =>
        /\ \A n \in 1..Len(trial.out.cart) : trial.out.cart[n].qty >= 1
        /\ trial.out.intent = Str("add_to_cart") =>
              /\ Len(trial.out.cart) >= Len(trial.cart)
              /\ \A n \in 1..Len(trial.cart) : trial.out.cart[n] = trial.cart[n]
              /\ \A n \in 1..Len(Appended) : Appended[n].qty = 1
        /\ trial.out.intent # Str("add_to_cart") =>
              /\ Len(trial.out.cart) <= Len(trial.cart)
              /\ \A n \in 1..Len(trial.out.cart) : trial.out.cart[n] = trial.cart[n]

(* an add_to_cart turn on the cart Naan x 1, Dal x 2 that added Naan again:
   the two entries are as they were and a third entry, Naan x 1, follows *)
C26_Witness ==
    /\ ExecutedTrial
    /\ trial.out.intent = Str("add_to_cart")
    /\ trial.cart = StoredSession.cart
    /\ Len(trial.out.cart) = 3
    /\ trial.out.cart[1].dish_id = "d1" /\ trial.out.cart[1].qty = 1
    /\ trial.out.cart[2].dish_id = "d2" /\ trial.out.cart[2].qty = 2
    /\ trial.out.cart[3].dish_id = "d1" /\ trial.out.cart[3].qty = 1

====
